---- MODULE Spec2Model ----
(***************************************************************************)
(* A model of PYPIT's calibration bookkeeping:                             *)
(*   pypit/armbase.py   SetupScience, UpdateMasters                        *)
(*   src/arextract.py   boxcar, obj_profiles                               *)
(* Science exposures are indexed from 0 as in the Python lists, detectors  *)
(* from 1 as in the code's `det` argument.                                 *)
(***************************************************************************)
EXTENDS Integers, Sequences, FiniteSets, TLC

\* ------------------------------------------------------------------ bounds
\* Number of science exposures in the list handed to UpdateMasters.
NumSci == 3
\* Number of detectors of the mosaic (settings.spect['mosaic']['ndet']).
NDet == 2
\* Number of calls a caller makes on one exposure list in the open-caller model.
MaxOps == 2

VARIABLES
    sciexp,     \* the list of ScienceExposure objects (index arrays + master slots)
    fdet,       \* open caller: the detector being reduced
    ffam,       \* open caller: the calibration type (ftype) being reduced
    nops,       \* open caller: calls made so far
    last,       \* the last call made: [op, sc, det, ftype, chktype]
    lastlog,    \* what the last UpdateMasters call logged: "none", "info" or "bug"
    dpc,        \* in-order driver: [sc, det, done] position of the reduction loop
    run,        \* the process: "running", "fatal" (msgs.error) or "exit" (sys.exit)
    settings,   \* SetupScience: argflag run.calcheck, reduce.setup, and spect's index lists
    fitscfg,    \* SetupScience: the instrument configuration of each science frame
    disk,       \* SetupScience: the .setup file found at start, and the files written
    ss,         \* SetupScience: its local variables and its position
    group_dict, \* SetupScience: group_dict
    seen,       \* SetupScience: per group and key, every filename met, in order
    bx,         \* boxcar: its arguments, its loop position, the specobjs it fills
    pf          \* obj_profiles: its arguments, its loop position, what it did

vars == <<sciexp, fdet, ffam, nops, last, lastlog, dpc, run,
          settings, fitscfg, disk, ss, group_dict, seen, bx, pf>>

umvars == <<sciexp, fdet, ffam, nops, last, lastlog, dpc, run>>
ssvars == <<settings, fitscfg, disk, ss, group_dict, seen>>
exvars == <<bx, pf>>

\* No extraction is going on.
NoExtract ==
    /\ bx = [pc |-> "off"]
    /\ pf = [pc |-> "off"]

\* ------------------------------------------------------- science exposures
Dets == 1..NDet
SciIdx == 0..(NumSci - 1)

\* An empty master slot (Python None); a filled slot holds <<o, t>>: the master
\* frame computed for exposure o as type t (on the slot's detector).
None == <<>>

\* The master slots of a ScienceExposure (_msarc, _msbias, _msrn, _mstrace,
\* _mspixelflat, _msstd).
SlotTypes == {"arc", "bias", "readnoise", "trace", "pixelflat", "standard"}

\* The calibration index arrays matched to one science frame.  Three matchings
\* are enough to give every relation between two arrays: equal, permuted,
\* prefix/overlap, and equal across the two flat subtypes.
Profiles ==
    { [idx_arcs |-> <<1, 2>>, idx_bias |-> <<3>>,    idx_rn |-> <<3>>,
       idx_trace |-> <<4, 5>>, idx_flat |-> <<4, 5>>, idx_std |-> <<6>>],
      [idx_arcs |-> <<2, 1>>, idx_bias |-> <<3>>,    idx_rn |-> <<3>>,
       idx_trace |-> <<7>>,    idx_flat |-> <<4, 5>>, idx_std |-> <<6, 8>>],
      [idx_arcs |-> <<1>>,    idx_bias |-> <<3, 9>>, idx_rn |-> <<9>>,
       idx_trace |-> <<5, 4>>, idx_flat |-> <<7>>,    idx_std |-> <<6>>] }

\* The fitsdict index of the science frame at position snum of
\* filesort['science'].
SciFrame(snum) == 10 + snum

\* The matchings match_science can leave in settings.spect: one per science
\* frame.
Matchings == [SciIdx -> Profiles]

\* ScienceExposure(snum, fitsdict): a freshly constructed exposure holds the
\* index arrays matched to science frame snum, and no master frame.
ScienceExposure(snum, spect) ==
    [idx_sci |-> <<SciFrame(snum)>>,
     idx_arcs |-> spect[snum].idx_arcs, idx_bias |-> spect[snum].idx_bias,
     idx_rn |-> spect[snum].idx_rn, idx_trace |-> spect[snum].idx_trace,
     idx_flat |-> spect[snum].idx_flat, idx_std |-> spect[snum].idx_std,
     master |-> [t \in SlotTypes |-> [d \in Dets |-> None]]]

\* sciexp[i].GetMasterFrame(ftype, det)
GetMasterFrame(exp, ftype, det) == exp.master[ftype][det]

\* sciexp[i].SetMasterFrame(frame, ftype, det): stores a copy of the frame.
SetMasterFrame(exp, frame, ftype, det) ==
    [exp EXCEPT !.master[ftype][det] = frame]

\* Mutant of the comparison: b holds every element of a (overlap, not equality).
array_equal_subset(a, b) ==
    \A k \in 1..Len(a) : \E j \in 1..Len(b) : a[k] = b[j]

\* np.array_equal(a, b): same shape and the same element at every position.
array_equal(a, b) ==
    /\ Len(a) = Len(b)
    /\ \A k \in 1..Len(a) : a[k] = b[k]

\* The index array UpdateMasters reads for a flat subtype.
FlatArr(exp, chktype) ==
    IF chktype = "trace" THEN exp.idx_trace ELSE exp.idx_flat

\* The index array UpdateMasters reads for a plain type.
PlainArr(exp, ftype) ==
    IF ftype = "arc" THEN exp.idx_arcs
    ELSE IF ftype = "bias" THEN exp.idx_bias
    ELSE exp.idx_std

\* ------------------------------------------------------------ UpdateMasters
\* Mutants of the test-and-copy: one overwrites a filled slot, one reads the
\* master of exposure i instead of exposure sc.
CopyIfIdentical_overwrite(r, sc, det, chkarr, chkfarr, origtype, totype, i) ==
    IF array_equal(chkarr, chkfarr)
    THEN [se  |-> [r.se EXCEPT ![i] =
                      SetMasterFrame(r.se[i], GetMasterFrame(r.se[sc], origtype, det),
                                     totype, det)],
          log |-> "info"]
    ELSE r

CopyIfIdentical_wrongsource(r, sc, det, chkarr, chkfarr, origtype, totype, i) ==
    IF array_equal(chkarr, chkfarr) /\ GetMasterFrame(r.se[i], totype, det) = None
    THEN [se  |-> [r.se EXCEPT ![i] =
                      SetMasterFrame(r.se[i], GetMasterFrame(r.se[i], origtype, det),
                                     totype, det)],
          log |-> "info"]
    ELSE r

\* One test-and-copy of a loop body: exposure i receives exposure sc's master of
\* type origtype into its slot totype when the arrays are equal and the slot is
\* empty.
CopyIfIdentical(r, sc, det, chkarr, chkfarr, origtype, totype, i) ==
    IF array_equal(chkarr, chkfarr) /\ GetMasterFrame(r.se[i], totype, det) = None
    THEN [se  |-> [r.se EXCEPT ![i] =
                      SetMasterFrame(r.se[i], GetMasterFrame(r.se[sc], origtype, det),
                                     totype, det)],
          log |-> "info"]
    ELSE r

\* The loop over flats of the same subtype, for i in range(sc+1, numsci).
RECURSIVE FlatSameLoop(_, _, _, _, _, _, _)
FlatSameLoop(r, sc, det, chktype, chkarr, i, numsci) ==
    IF i >= numsci THEN r
    ELSE IF chktype \notin {"trace", "pixelflat"}
    THEN [se |-> r.se, log |-> "bug"]
    ELSE FlatSameLoop(
            CopyIfIdentical(r, sc, det, chkarr, FlatArr(r.se[i], chktype),
                            chktype, chktype, i),
            sc, det, chktype, chkarr, i + 1, numsci)

\* The loop over flats of the other subtype, for i in range(sc, numsci).
RECURSIVE FlatOtherLoop(_, _, _, _, _, _, _, _)
FlatOtherLoop(r, sc, det, origtype, chktype, chkarr, i, numsci) ==
    IF i >= numsci THEN r
    ELSE IF chktype \notin {"trace", "pixelflat"}
    THEN [se |-> r.se, log |-> "bug"]
    ELSE FlatOtherLoop(
            CopyIfIdentical(r, sc, det, chkarr, FlatArr(r.se[i], chktype),
                            origtype, chktype, i),
            sc, det, origtype, chktype, chkarr, i + 1, numsci)

\* Mutant of the plain loop: range(sc+1, numsci-1), the last exposure is missed.
RECURSIVE PlainLoop_stops_early(_, _, _, _, _, _, _)
PlainLoop_stops_early(r, sc, det, ftype, chkarr, i, numsci) ==
    IF i >= numsci - 1 THEN r
    ELSE IF ftype \notin {"arc", "bias", "standard"}
    THEN [se |-> r.se, log |-> "bug"]
    ELSE PlainLoop_stops_early(
            CopyIfIdentical(r, sc, det, chkarr, PlainArr(r.se[i], ftype),
                            ftype, ftype, i),
            sc, det, ftype, chkarr, i + 1, numsci)

\* Mutant of the plain loop: the inner chain has a readnoise branch too.
RECURSIVE PlainLoop_readnoise(_, _, _, _, _, _, _)
PlainLoop_readnoise(r, sc, det, ftype, chkarr, i, numsci) ==
    IF i >= numsci THEN r
    ELSE IF ftype \notin {"arc", "bias", "standard", "readnoise"}
    THEN [se |-> r.se, log |-> "bug"]
    ELSE PlainLoop_readnoise(
            CopyIfIdentical(r, sc, det, chkarr,
                            IF ftype = "readnoise" THEN r.se[i].idx_rn
                            ELSE PlainArr(r.se[i], ftype),
                            ftype, ftype, i),
            sc, det, ftype, chkarr, i + 1, numsci)

\* Mutant of the plain loop: it stops after the first copy.
RECURSIVE PlainLoop_firstcopy(_, _, _, _, _, _, _)
PlainLoop_firstcopy(r, sc, det, ftype, chkarr, i, numsci) ==
    IF i >= numsci THEN r
    ELSE IF ftype \notin {"arc", "bias", "standard"}
    THEN [se |-> r.se, log |-> "bug"]
    ELSE LET r2 == CopyIfIdentical(r, sc, det, chkarr, PlainArr(r.se[i], ftype),
                                   ftype, ftype, i)
         IN  IF r2.se # r.se THEN r2
             ELSE PlainLoop_firstcopy(r2, sc, det, ftype, chkarr, i + 1, numsci)

\* The loop of the plain types, for i in range(sc+1, numsci).
RECURSIVE PlainLoop(_, _, _, _, _, _, _)
PlainLoop(r, sc, det, ftype, chkarr, i, numsci) ==
    IF i >= numsci THEN r
    ELSE IF ftype \notin {"arc", "bias", "standard"}
    THEN [se |-> r.se, log |-> "bug"]
    ELSE PlainLoop(
            CopyIfIdentical(r, sc, det, chkarr, PlainArr(r.se[i], ftype),
                            ftype, ftype, i),
            sc, det, ftype, chkarr, i + 1, numsci)

\* Mutant of the swap: the subtype is not swapped.
OtherFlat_noswap(chktype) == chktype

\* The subtype swap before the second flat loop.
OtherFlat(chktype) ==
    IF chktype = "trace" THEN "pixelflat"
    ELSE IF chktype = "pixelflat" THEN "trace"
    ELSE chktype

\* Mutant of the propagation: the loops of the same type start at exposure 0.
Propagate_fromstart(se, sc, det, ftype, chktype, chkarr, numsci) ==
    IF ftype = "flat"
    THEN LET r1 == FlatSameLoop([se |-> se, log |-> "none"], sc, det, chktype,
                                chkarr, 0, numsci)
         IN  IF r1.log = "bug" THEN r1
             ELSE FlatOtherLoop(r1, sc, det, chktype, OtherFlat(chktype),
                                chkarr, sc, numsci)
    ELSE PlainLoop([se |-> se, log |-> "none"], sc, det, ftype, chkarr,
                   0, numsci)

\* The propagation proper, once chkarr is selected.
Propagate(se, sc, det, ftype, chktype, chkarr, numsci) ==
    IF ftype = "flat"
    THEN LET r1 == FlatSameLoop([se |-> se, log |-> "none"], sc, det, chktype,
                                chkarr, sc + 1, numsci)
         IN  IF r1.log = "bug" THEN r1
             ELSE FlatOtherLoop(r1, sc, det, chktype, OtherFlat(chktype),
                                chkarr, sc, numsci)
    ELSE PlainLoop([se |-> se, log |-> "none"], sc, det, ftype, chkarr,
                   sc + 1, numsci)

\* Mutant of the type selection: the chain ends in a plain else, so that an
\* unknown ftype or flat subtype is taken for a standard.
UpdateMasters_elsestd(se, sc, det, ftype, chktype) ==
    LET numsci == Cardinality(DOMAIN se)
    IN  IF ftype = "arc"
        THEN Propagate(se, sc, det, ftype, chktype, se[sc].idx_arcs, numsci)
        ELSE IF ftype = "bias"
        THEN Propagate(se, sc, det, ftype, chktype, se[sc].idx_bias, numsci)
        ELSE IF ftype = "readnoise"
        THEN Propagate(se, sc, det, ftype, chktype, se[sc].idx_rn, numsci)
        ELSE IF ftype = "flat" /\ chktype = "trace"
        THEN Propagate(se, sc, det, ftype, chktype, se[sc].idx_trace, numsci)
        ELSE IF ftype = "flat" /\ chktype = "pixelflat"
        THEN Propagate(se, sc, det, ftype, chktype, se[sc].idx_flat, numsci)
        ELSE PlainLoop([se |-> se, log |-> "none"], sc, det, "standard",
                       se[sc].idx_std, sc + 1, numsci)

\* UpdateMasters(sciexp, sc, det, ftype, chktype): the new list and what was
\* logged: "none", "info" (a master was copied) or "bug" (msgs.bug, which logs
\* and lets the function return).  "error" would be msgs.error, which ends the
\* run; the function never calls it.
UpdateMasters(se, sc, det, ftype, chktype) ==
    LET numsci == Cardinality(DOMAIN se)
        bug    == [se |-> se, log |-> "bug"]
    IN  IF ftype = "arc"
        THEN Propagate(se, sc, det, ftype, chktype, se[sc].idx_arcs, numsci)
        ELSE IF ftype = "bias"
        THEN Propagate(se, sc, det, ftype, chktype, se[sc].idx_bias, numsci)
        ELSE IF ftype = "readnoise"
        THEN Propagate(se, sc, det, ftype, chktype, se[sc].idx_rn, numsci)
        ELSE IF ftype = "flat"
        THEN IF chktype = "trace"
             THEN Propagate(se, sc, det, ftype, chktype, se[sc].idx_trace, numsci)
             ELSE IF chktype = "pixelflat"
             THEN Propagate(se, sc, det, ftype, chktype, se[sc].idx_flat, numsci)
             ELSE bug
        ELSE IF ftype = "standard"
        THEN Propagate(se, sc, det, ftype, chktype, se[sc].idx_std, numsci)
        ELSE bug

\* ------------------------------------------------------------ the callers
\* The ftype values whose master is computed and propagated by the reduction.
FTypes == {"arc", "bias", "standard", "flat"}

\* Further ftype values a caller can pass: "readnoise", and "wave", a master type
\* of the pipeline that UpdateMasters does not know.
OtherFTypes == {"readnoise", "wave"}

\* The chktype values passed with an ftype: a flat subtype, or "blaze", which is
\* no subtype; the other types are called without a chktype.
ChkTypes(ftype) ==
    IF ftype = "flat" THEN {"trace", "pixelflat", "blaze"} ELSE {"none"}

\* The master slot a (ftype, chktype) pair names.
SlotOf(ftype, chktype) == IF ftype = "flat" THEN chktype ELSE ftype

\* The pairs for which a master frame is computed and then propagated.
Propagated(ftype, chktype) ==
    \/ ftype \in {"arc", "bias", "standard"}
    \/ ftype = "flat" /\ chktype \in {"trace", "pixelflat"}

NoCall == [op |-> "none", sc |-> 0, det |-> 1, ftype |-> "none", chktype |-> "none"]

NoDriver == [sc |-> 0, det |-> 1, done |-> {}]

\* SetupScience is over when the list is handed to UpdateMasters.
SetupOver ==
    /\ settings = [calcheck |-> FALSE]
    /\ fitscfg = <<>>
    /\ disk = <<>>
    /\ ss = [pc |-> "done"]
    /\ group_dict = <<>>
    /\ seen = <<>>

\* The exposure lists SetupScience can hand over: every exposure freshly
\* constructed from one of the matchings.
FreshLists == {[i \in SciIdx |-> ScienceExposure(i, m)] : m \in Matchings}

\* MasterBias / MasterArc / MasterTrace / MasterFlatField / MasterStandard of the
\* exposure being reduced: the master is computed only when the slot is empty,
\* and is then the exposure's own.
ComputeMaster(se, sc, det, slot) ==
    [se EXCEPT ![sc] = SetMasterFrame(se[sc], <<sc, slot>>, slot, det)]

\* The reduction step of one calibration type: compute the master of exposure
\* sc, then call UpdateMasters once for that type.
MasterStep(sc, det, ftype, chktype) ==
    /\ Propagated(ftype, chktype)
    /\ GetMasterFrame(sciexp[sc], SlotOf(ftype, chktype), det) = None
    /\ LET r == UpdateMasters(ComputeMaster(sciexp, sc, det, SlotOf(ftype, chktype)),
                              sc, det, ftype, chktype)
       IN  /\ sciexp' = r.se
           /\ lastlog' = r.log
           /\ run' = IF r.log = "error" THEN "fatal" ELSE run
    /\ last' = [op |-> "MasterStep", sc |-> sc, det |-> det,
                ftype |-> ftype, chktype |-> chktype]

\* A bare call of UpdateMasters.  For a propagated type the call follows the
\* computation of the current exposure's master, so that slot is filled.
CallUpdateMasters(sc, det, ftype, chktype) ==
    /\ Propagated(ftype, chktype) =>
           GetMasterFrame(sciexp[sc], SlotOf(ftype, chktype), det) # None
    /\ LET r == UpdateMasters(sciexp, sc, det, ftype, chktype)
       IN  /\ sciexp' = r.se
           /\ lastlog' = r.log
           /\ run' = IF r.log = "error" THEN "fatal" ELSE run
    /\ last' = [op |-> "UpdateMasters", sc |-> sc, det |-> det,
                ftype |-> ftype, chktype |-> chktype]

\* ---------------------------------------------------------- the open caller
\* Any caller: exposures in any order, any ftype/chktype, for the detector and
\* the calibration type of the run.
Init ==
    /\ sciexp \in FreshLists
    /\ fdet \in Dets
    /\ ffam \in FTypes
    /\ nops = 0
    /\ last = NoCall
    /\ lastlog = "none"
    /\ dpc = NoDriver
    /\ run = "running"
    /\ SetupOver
    /\ NoExtract

Reduce ==
    /\ run = "running"
    /\ nops < MaxOps
    /\ \E sc \in SciIdx, chktype \in ChkTypes(ffam) :
           MasterStep(sc, fdet, ffam, chktype)
    /\ nops' = nops + 1
    /\ UNCHANGED <<fdet, ffam, dpc, ssvars, exvars>>

Update ==
    /\ run = "running"
    /\ nops < MaxOps
    /\ \E sc \in SciIdx, ftype \in {ffam} \cup OtherFTypes :
           \E chktype \in ChkTypes(ftype) :
               CallUpdateMasters(sc, fdet, ftype, chktype)
    /\ nops' = nops + 1
    /\ UNCHANGED <<fdet, ffam, dpc, ssvars, exvars>>

Next == Reduce \/ Update

Spec == Init /\ [][Next]_vars

\* ------------------------------------------------------ the in-order driver
\* The reduction loop: exposures strictly in index order, for each the detectors
\* in order, for each detector every calibration type once (in any order).  A
\* master is computed only if the slot is still empty, and UpdateMasters is then
\* called once for it.
DriverTypes == {<<"bias", "none">>, <<"arc", "none">>, <<"flat", "trace">>,
                <<"flat", "pixelflat">>, <<"standard", "none">>}

DriverInit ==
    /\ sciexp \in FreshLists
    /\ fdet = 1
    /\ ffam = "none"
    /\ nops = 0
    /\ last = NoCall
    /\ lastlog = "none"
    /\ dpc = NoDriver
    /\ run = "running"
    /\ SetupOver
    /\ NoExtract

DriverCompute ==
    /\ \E ty \in DriverTypes \ dpc.done :
          /\ MasterStep(dpc.sc, dpc.det, ty[1], ty[2])
          /\ dpc' = [dpc EXCEPT !.done = @ \cup {ty}]
    /\ UNCHANGED <<fdet, ffam, nops, ssvars, exvars>>

DriverReuse ==
    /\ \E ty \in DriverTypes \ dpc.done :
          /\ GetMasterFrame(sciexp[dpc.sc], SlotOf(ty[1], ty[2]), dpc.det) # None
          /\ dpc' = [dpc EXCEPT !.done = @ \cup {ty}]
          /\ last' = [op |-> "reuse", sc |-> dpc.sc, det |-> dpc.det,
                      ftype |-> ty[1], chktype |-> ty[2]]
    /\ UNCHANGED <<sciexp, lastlog, fdet, ffam, nops, run, ssvars, exvars>>

DriverNextDet ==
    /\ dpc.done = DriverTypes
    /\ dpc.det < NDet
    /\ dpc' = [dpc EXCEPT !.det = @ + 1, !.done = {}]
    /\ UNCHANGED <<sciexp, last, lastlog, fdet, ffam, nops, run, ssvars, exvars>>

DriverNextSci ==
    /\ dpc.done = DriverTypes
    /\ dpc.det = NDet
    /\ dpc.sc < NumSci - 1
    /\ dpc' = [sc |-> dpc.sc + 1, det |-> 1, done |-> {}]
    /\ UNCHANGED <<sciexp, last, lastlog, fdet, ffam, nops, run, ssvars, exvars>>

DriverNext == DriverCompute \/ DriverReuse \/ DriverNextDet \/ DriverNextSci

SpecDriver == DriverInit /\ [][DriverNext]_vars

\* ------------------------------------------------------------ SetupScience
\* Instrument configurations of the science frames.
Cfgs == {"c1", "c2"}

\* arsort.load_setup: the configurations the .setup file of an earlier run
\* lists, in the order of their setup ids. The earlier run saw only the first
\* configuration.
PriorSetup == <<"c1">>

\* The setup id of the k-th configuration of a setup dict, for a detector: 01,
\* 02, ... for the first, 11, 12, ... for the second.
SetupId(k, det) == 10 * (k - 1) + det

\* settings.argflag['reduce']['setup']: None, or a list of setup ids.
SetupFilters ==
    { [given |-> FALSE, ids |-> {}],
      [given |-> TRUE,  ids |-> {SetupId(1, 1)}],
      [given |-> TRUE,  ids |-> {SetupId(2, 1)}] }

\* arsort.instr_setup(sc, det, fitsdict, setup_dict): the id of the
\* configuration of science frame sc; a configuration not yet in setup_dict
\* is added to it.
instr_setup(sc, det, setup_dict) ==
    LET known == {k \in 1..Len(setup_dict) : setup_dict[k] = fitscfg[sc]}
    IN  IF known # {}
        THEN [setup |-> SetupId(CHOOSE k \in known : TRUE, det), dict |-> setup_dict]
        ELSE [setup |-> SetupId(Len(setup_dict) + 1, det),
              dict  |-> Append(setup_dict, fitscfg[sc])]

\* fitsdict['filename'][idx] and fitsdict['target'][idx].
FileName(idx) == <<"file", idx>>
Target(idx) == <<"target", idx>>

\* filesort.keys()
Keys == <<"science", "standard", "bias", "dark", "pixelflat", "trace", "unknown", "arc">>

\* settings.spect[key]['index'][sc]
SpectIndex(key, sc) ==
    CASE key = "science"   -> <<SciFrame(sc)>>
      [] key = "standard"  -> settings.spect[sc].idx_std
      [] key = "bias"      -> settings.spect[sc].idx_bias
      [] key = "pixelflat" -> settings.spect[sc].idx_flat
      [] key = "trace"     -> settings.spect[sc].idx_trace
      [] key = "arc"       -> settings.spect[sc].idx_arcs
      [] OTHER             -> <<>>

\* A Python list as a function on 0..n-1.
PyLen(l) == Cardinality(DOMAIN l)
PyAppend(l, x) == [k \in 0..PyLen(l) |-> IF k < PyLen(l) THEN l[k] ELSE x]

InList(x, l) == \E k \in 1..Len(l) : l[k] = x

\* The record of a new group: a list per key other than unknown and dark, and
\* the two target lists.
GroupFields == {"science", "standard", "bias", "pixelflat", "trace", "arc",
                "sciobj", "stdobj"}
NewGroup == [f \in GroupFields |-> <<>>]

SetupStart ==
    [pc |-> "start", bad_to_unknown |-> FALSE, do_qa |-> FALSE,
     prev_setup_dict |-> <<>>, sorted |-> FALSE, sort_flag |-> FALSE,
     dirs |-> FALSE,
     i |-> 0, scii |-> <<>>, setups |-> <<>>, skipped |-> <<>>,
     setup_dict |-> <<>>, sc |-> 0, scidx |-> 0, group_key |-> <<>>,
     key |-> 1, pos |-> 1]

SetupInit ==
    /\ settings \in [calcheck : BOOLEAN, setup : SetupFilters, spect : Matchings]
    /\ fitscfg \in [SciIdx -> Cfgs]
    /\ disk \in [nexist : {0, 1}, setup_file : {"none"}, group_file : {"none"}]
    /\ ss = SetupStart
    /\ group_dict = <<>>
    /\ seen = <<>>
    /\ sciexp = <<>>
    /\ run = "running"
    /\ fdet = 1
    /\ ffam = "none"
    /\ nops = 0
    /\ last = NoCall
    /\ lastlog = "none"
    /\ dpc = NoDriver
    /\ NoExtract

umrest == <<fdet, ffam, nops, last, lastlog, dpc>>

\* Mutant of the restriction check: it never raises.
RestrictOnSetup_never(setup, nexist) == "none"

\* Lines 49-51: msgs.error when a setup restriction is asked for and there is
\* no .setup file.
RestrictOnSetup(setup, nexist) ==
    IF setup.given /\ nexist = 0 THEN "error" ELSE "none"

\* Mutant of the flags: frames go to unknown outside a calibration check.
InitFlags_swapped(calcheck) ==
    IF calcheck
    THEN [do_qa |-> FALSE, bad_to_unknown |-> FALSE]
    ELSE [do_qa |-> TRUE, bad_to_unknown |-> TRUE]

\* Lines 38-43: the two flags that follow from run.calcheck.
InitFlags(calcheck) ==
    IF calcheck
    THEN [do_qa |-> FALSE, bad_to_unknown |-> TRUE]
    ELSE [do_qa |-> TRUE, bad_to_unknown |-> FALSE]

\* Lines 37-51: the flags, the .setup file, the restriction check.
SetupBegin ==
    /\ run = "running"
    /\ ss.pc = "start"
    /\ LET flags == [ss EXCEPT !.bad_to_unknown = InitFlags(settings.calcheck).bad_to_unknown,
                               !.do_qa = InitFlags(settings.calcheck).do_qa,
                               !.prev_setup_dict =
                                   IF disk.nexist = 1 THEN PriorSetup ELSE <<>>]
       IN  IF RestrictOnSetup(settings.setup, disk.nexist) = "error"
           THEN /\ run' = "fatal"
                /\ ss' = [flags EXCEPT !.pc = "fatal"]
           ELSE /\ run' = run
                /\ ss' = [flags EXCEPT !.pc = "sort"]
    /\ UNCHANGED <<sciexp, settings, fitscfg, disk, group_dict, seen, umrest, exvars>>

\* Lines 53-66: sort_data, match_science, make_dirs, the empty lists.
SortData ==
    /\ run = "running"
    /\ ss.pc = "sort"
    /\ ss' = [ss EXCEPT !.sorted = TRUE, !.sort_flag = ss.bad_to_unknown,
                        !.dirs = ss.do_qa, !.i = 0,
                        !.pc = IF NumSci > 0 THEN "build" ELSE "write"]
    /\ UNCHANGED <<sciexp, run, settings, fitscfg, disk, group_dict, seen, umrest, exvars>>

\* Mutant of the filter test: the `not` is missing.
AddFrame_inverted(setup, reduce_setup) ==
    IF reduce_setup.given THEN setup \notin reduce_setup.ids ELSE TRUE

\* Lines 68-73: whether science frame i is added.
AddFrame(setup, reduce_setup) ==
    IF reduce_setup.given THEN setup \in reduce_setup.ids ELSE TRUE

\* Line 70: the setup of science frame i, asked for only under a restriction.
FilterSetup(i) ==
    IF settings.setup.given
    THEN instr_setup(i, 1, ss.prev_setup_dict)
    ELSE [setup |-> 0, dict |-> ss.prev_setup_dict]

\* Where the loop of lines 67-76 goes after frame i.
AfterFrame(i, nkept) ==
    IF i + 1 < NumSci THEN "build"
    ELSE IF nkept > 0 THEN "group_begin" ELSE "write"

\* Lines 74-76: science frame i becomes a ScienceExposure.
AddScience ==
    /\ run = "running"
    /\ ss.pc = "build"
    /\ LET r == FilterSetup(ss.i)
       IN  /\ AddFrame(r.setup, settings.setup)
           /\ sciexp' = PyAppend(sciexp, ScienceExposure(ss.i, settings.spect))
           /\ ss' = [ss EXCEPT !.prev_setup_dict = r.dict,
                               !.setups = Append(@, r.setup),
                               !.scii = Append(@, ss.i),
                               !.i = ss.i + 1, !.sc = 0,
                               !.pc = AfterFrame(ss.i, Len(ss.scii) + 1)]
    /\ UNCHANGED <<run, settings, fitscfg, disk, group_dict, seen, umrest, exvars>>

\* Lines 71-73: science frame i is skipped, with a msgs.info.
SkipScience ==
    /\ run = "running"
    /\ ss.pc = "build"
    /\ LET r == FilterSetup(ss.i)
       IN  /\ ~AddFrame(r.setup, settings.setup)
           /\ ss' = [ss EXCEPT !.prev_setup_dict = r.dict,
                               !.setups = Append(@, r.setup),
                               !.skipped = Append(@, ss.i),
                               !.i = ss.i + 1, !.sc = 0,
                               !.pc = AfterFrame(ss.i, Len(ss.scii))]
    /\ UNCHANGED <<sciexp, run, settings, fitscfg, disk, group_dict, seen, umrest, exvars>>

\* Lines 100-101: instr_setup(sc, kk+1, ...) for every detector.
RECURSIVE RunThroughSetups(_, _, _)
RunThroughSetups(sc, kk, setup_dict) ==
    IF kk >= NDet THEN setup_dict
    ELSE RunThroughSetups(sc, kk + 1, instr_setup(sc, kk + 1, setup_dict).dict)

\* The next key from position k of filesort.keys() that the fill loop does not
\* pass over (lines 104-107): not unknown or dark, and with an index to loop
\* on; 0 when there is none.
RECURSIVE NextKey(_, _)
NextKey(sc, k) ==
    IF k > Len(Keys) THEN 0
    ELSE IF Keys[k] \notin {"unknown", "dark"} /\ Len(SpectIndex(Keys[k], sc)) > 0
    THEN k
    ELSE NextKey(sc, k + 1)

\* Where the loops go once the fill of exposure sc is over.
AfterExposure(sc) ==
    IF sc + 1 < PyLen(sciexp) THEN "group_begin" ELSE "write"

\* Lines 82-101: the setup and the group key of exposure sc, the new group.
GroupBegin ==
    /\ run = "running"
    /\ ss.pc = "group_begin"
    /\ LET sc    == ss.sc
           r     == instr_setup(ss.scii[sc + 1], 1, ss.setup_dict)
           gkey  == [i \in 1..NDet |-> r.setup + (i - 1)]
           first == NextKey(sc, 1)
       IN  /\ group_dict' = IF gkey \in DOMAIN group_dict THEN group_dict
                            ELSE (gkey :> NewGroup) @@ group_dict
           /\ seen' = IF gkey \in DOMAIN seen THEN seen
                      ELSE (gkey :> NewGroup) @@ seen
           /\ ss' = [ss EXCEPT !.scidx = sciexp[sc].idx_sci[1],
                               !.group_key = gkey,
                               !.setup_dict = RunThroughSetups(sc, 0, r.dict),
                               !.key = first, !.pos = 1,
                               !.sc = IF first = 0 THEN sc + 1 ELSE sc,
                               !.pc = IF first = 0 THEN AfterExposure(sc)
                                      ELSE "group_fill"]
    /\ UNCHANGED <<sciexp, run, settings, fitscfg, disk, umrest, exvars>>

\* Mutant of the fill: the target of a standard is added at every occurrence.
FillOne_stdobj_each(grp, key, idx, scidx) ==
    LET g1 == IF ~InList(FileName(idx), grp[key])
              THEN [grp EXCEPT ![key] = Append(@, FileName(idx))]
              ELSE grp
        g2 == IF key = "standard"
              THEN [g1 EXCEPT !["stdobj"] = Append(@, Target(idx))]
              ELSE g1
    IN  IF key = "science"
        THEN [g2 EXCEPT !["sciobj"] = Append(@, Target(scidx))]
        ELSE g2

\* Mutant of the fill: the filename is added whether or not it is new.
FillOne_always(grp, key, idx, scidx) ==
    LET g1 == [grp EXCEPT ![key] = Append(@, FileName(idx))]
        g2 == IF key = "standard"
              THEN [g1 EXCEPT !["stdobj"] = Append(@, Target(idx))]
              ELSE g1
    IN  IF key = "science"
        THEN [g2 EXCEPT !["sciobj"] = Append(@, Target(scidx))]
        ELSE g2

\* Lines 108-114: one index of one key.
FillOne(grp, key, idx, scidx) ==
    LET g1 == IF ~InList(FileName(idx), grp[key])
              THEN LET g0 == [grp EXCEPT ![key] = Append(@, FileName(idx))]
                   IN  IF key = "standard"
                       THEN [g0 EXCEPT !["stdobj"] = Append(@, Target(idx))]
                       ELSE g0
              ELSE grp
    IN  IF key = "science"
        THEN [g1 EXCEPT !["sciobj"] = Append(@, Target(scidx))]
        ELSE g1

\* Lines 104-114: the fill loops of exposure sc, one index at a time.
GroupFill ==
    /\ run = "running"
    /\ ss.pc = "group_fill"
    /\ LET sc   == ss.sc
           key  == Keys[ss.key]
           idx  == SpectIndex(key, sc)[ss.pos]
           more == ss.pos < Len(SpectIndex(key, sc))
           nxt  == NextKey(sc, ss.key + 1)
       IN  /\ group_dict' = [group_dict EXCEPT ![ss.group_key] =
                                FillOne(@, key, idx, ss.scidx)]
           /\ seen' = [seen EXCEPT ![ss.group_key][key] = Append(@, FileName(idx))]
           /\ ss' = IF more THEN [ss EXCEPT !.pos = ss.pos + 1]
                    ELSE IF nxt # 0 THEN [ss EXCEPT !.key = nxt, !.pos = 1]
                    ELSE [ss EXCEPT !.sc = sc + 1, !.pc = AfterExposure(sc)]
    /\ UNCHANGED <<sciexp, run, settings, fitscfg, disk, umrest, exvars>>

\* Lines 115-134: the setup file (only if there was none), the group file, and
\* the exit of a calibration check.
WriteFiles ==
    /\ run = "running"
    /\ ss.pc = "write"
    /\ disk' = [disk EXCEPT !.setup_file = IF disk.nexist = 0 THEN "written" ELSE @,
                            !.group_file = "written"]
    /\ run' = IF settings.calcheck THEN "exit" ELSE run
    /\ ss' = [ss EXCEPT !.pc = "done"]
    /\ UNCHANGED <<sciexp, settings, fitscfg, group_dict, seen, umrest, exvars>>

SetupNext ==
    \/ SetupBegin \/ SortData \/ AddScience \/ SkipScience
    \/ GroupBegin \/ GroupFill \/ WriteFiles

SpecSetup == SetupInit /\ [][SetupNext]_vars

\* ----------------------------------------------------------------- boxcar
\* Rows and columns of the frames, and traced objects.
NRows == 2
NCols == 2
NObj == 2

Rows == 1..NRows
Cols == 1..NCols
Objs == 0..(NObj - 1)

\* Floating-point values: a finite quotient n/d, NaN, or infinity.
F(n) == [k |-> "fin", n |-> n, d |-> 1]
NaN == [k |-> "nan", n |-> 0, d |-> 1]
Inf == [k |-> "inf", n |-> 0, d |-> 1]

isnan(x) == x.k = "nan"

\* x * w for an integer weight w: NaN * 0 is NaN.
FMul(x, w) == IF isnan(x) THEN NaN ELSE F(x.n * w)

FSub(x, y) == IF isnan(x) \/ isnan(y) THEN NaN ELSE F(x.n - y.n)

\* np.sum over one row.
RECURSIVE FSumFrom(_, _)
FSumFrom(row, c) ==
    IF c > NCols THEN F(0)
    ELSE LET rest == FSumFrom(row, c + 1)
         IN  IF isnan(row[c]) \/ isnan(rest) THEN NaN
             ELSE F(row[c].n + rest.n)
FSum(row) == FSumFrom(row, 1)

\* x /= w for a float array: 0/0 is NaN and x/0 is infinite, with a warning
\* and no exception.
FDiv(x, w) ==
    IF isnan(x) THEN NaN
    ELSE IF w = 0 THEN (IF x.n = 0 THEN NaN ELSE Inf)
    ELSE [k |-> "fin", n |-> x.n, d |-> w]

\* Line 21.
mask_flags == [f \in {"bad_pix", "CR", "NAN"} |->
                  CASE f = "bad_pix" -> 1 [] f = "CR" -> 2 [] f = "NAN" -> 32]

\* Whether a mask value has the bit of a flag.
HasFlag(mask, flag) == (mask \div mask_flags[flag]) % 2 = 1

\* The pixel values of the frames: science, variance, sky, wavelength, and
\* the value of the background fit (arcyutils.func2d_fit_val).
PixelValues == [sci |-> 20, var |-> 4, sky |-> 3, wave |-> 5, bg |-> 1]

\* One row of scitrace['object'][:,:,o], by the kind of its aperture: no
\* pixel, the first column, or every column.
ApertureKinds == {"empty", "first", "all"}
WeightRow(kind) ==
    [c \in Cols |-> IF kind = "all" \/ (kind = "first" /\ c = 1) THEN 1 ELSE 0]

\* One row of crmask or of the bad pixel mask, by the pixels it flags.
FlagKinds == {"none", "first", "all"}
FlagRow(kind) ==
    [c \in Cols |-> IF kind = "all" \/ (kind = "first" /\ c = 1) THEN 1 ELSE 0]

\* The arguments of a call. All rows but one have the full aperture of every
\* object and no flagged pixel; row frow has the apertures wkind, the cosmic
\* rays crkind and the bad pixels bpkind. The science frame has a NaN in the
\* last column of row nanrow (0: no NaN). check[o] is what
\* specobjs[o].check_trace returns.
BoxcarArgs ==
    [frow : Rows, wkind : [Objs -> ApertureKinds], crkind : FlagKinds,
     bpkind : {"none", "first"}, nanrow : {0} \cup Rows, check : [Objs -> BOOLEAN]]

weight(a, o) == [r \in Rows |-> IF r = a.frow THEN WeightRow(a.wkind[o]) ELSE WeightRow("all")]
crmask(a) == [r \in Rows |-> IF r = a.frow THEN FlagRow(a.crkind) ELSE FlagRow("none")]
bpix(a) == [r \in Rows |-> IF r = a.frow THEN FlagRow(a.bpkind) ELSE FlagRow("none")]
sciframe(a) ==
    [r \in Rows |-> [c \in Cols |->
        IF r = a.nanrow /\ c = NCols THEN NaN ELSE F(PixelValues.sci)]]

\* scitrace['background'][:,:,o]: the pixels of a row outside the aperture,
\* and no pixel in row frow.
background(a, o) ==
    [r \in Rows |-> [c \in Cols |->
        IF r = a.frow THEN 0 ELSE 1 - weight(a, o)[r][c]]]

\* np.sum(weight, axis=1) for one row of integers.
RECURSIVE ISumFrom(_, _)
ISumFrom(row, c) == IF c > NCols THEN 0 ELSE row[c] + ISumFrom(row, c + 1)
ISum(row) == ISumFrom(row, 1)

\* Lines 59-88 for object o: the sums over the aperture of every row and the
\* mask before the NaN handling.
BoxcarSums(a, o) ==
    LET w         == weight(a, o)
        sumweight == [r \in Rows |-> ISum(w[r])]
        wvsum     == [r \in Rows |->
                         FDiv(FSum([c \in Cols |-> FMul(F(PixelValues.wave), w[r][c])]),
                              sumweight[r])]
        skysum    == [r \in Rows |->
                         FDiv(FSum([c \in Cols |-> FMul(F(PixelValues.sky), w[r][c])]),
                              sumweight[r])]
        scisum    == [r \in Rows |->
                         FSum([c \in Cols |->
                                 FMul(FSub(sciframe(a)[r][c], F(PixelValues.bg)), w[r][c])])]
        varsum    == [r \in Rows |->
                         FSum([c \in Cols |-> FMul(F(PixelValues.var), w[r][c])])]
        BPs       == [r \in Rows |-> ISum([c \in Cols |-> w[r][c] * bpix(a)[r][c]])]
        cr_mask   == [r \in Rows |-> [c \in Cols |-> 1 - crmask(a)[r][c]]]
        CRs       == [r \in Rows |-> ISum([c \in Cols |-> w[r][c] * cr_mask[r][c]])]
        boxmask   == [r \in Rows |->
                         (IF BPs[r] > 0 THEN mask_flags["bad_pix"] ELSE 0)
                         + (IF CRs[r] > 0 THEN mask_flags["CR"] ELSE 0)]
    IN  [wave |-> wvsum, counts |-> scisum, var |-> varsum, sky |-> skysum,
         mask |-> boxmask, sumweight |-> sumweight]

\* Lines 90-96: the NaN handling, with the key it looks up in mask_flags. A
\* key that mask_flags does not have raises KeyError, after the warning.
NanHandling(sums, key) ==
    LET NANs == {r \in Rows : isnan(sums.counts[r])}
    IN  IF NANs = {} THEN [raised |-> FALSE, warned |-> FALSE, sums |-> sums]
        ELSE IF key \notin DOMAIN mask_flags
        THEN [raised |-> TRUE, warned |-> TRUE, sums |-> sums]
        ELSE [raised |-> FALSE, warned |-> TRUE,
              sums |-> [sums EXCEPT
                  !.mask   = [r \in Rows |-> IF r \in NANs THEN @[r] + mask_flags[key] ELSE @[r]],
                  !.counts = [r \in Rows |-> IF r \in NANs THEN F(0) ELSE @[r]],
                  !.var    = [r \in Rows |-> IF r \in NANs THEN F(0) ELSE @[r]],
                  !.sky    = [r \in Rows |-> IF r \in NANs THEN F(0) ELSE @[r]]]]

\* specobjs[o].boxcar before anything is put in it.
EmptyBoxcar ==
    [filled |-> 0, wave |-> <<>>, counts |-> <<>>, var |-> <<>>, sky |-> <<>>,
     mask |-> <<>>]

\* Lines 76-78: the background correction image after object o.
UpdateBgcorr(bgcorr, a, o) ==
    [r \in Rows |-> [c \in Cols |->
        IF background(a, o)[r][c] + weight(a, o)[r][c] > 0
        THEN F(PixelValues.bg) ELSE bgcorr[r][c]]]

\* The variables of the reduction when only the extraction is looked at.
NoReduction ==
    /\ sciexp = <<>>
    /\ fdet = 1
    /\ ffam = "none"
    /\ nops = 0
    /\ last = NoCall
    /\ lastlog = "none"
    /\ dpc = NoDriver
    /\ run = "running"
    /\ SetupOver

BoxcarInit ==
    /\ bx \in [pc : {"loop"}, args : BoxcarArgs, o : {0},
               specobjs : {[o \in Objs |-> EmptyBoxcar]},
               bgcorr : {[r \in Rows |-> [c \in Cols |-> F(0)]]},
               warned : {FALSE}, returned : {<<>>}]
    /\ pf = [pc |-> "off"]
    /\ NoReduction

\* Lines 54-106: one pass of the loop on objects.
BoxcarObject ==
    /\ bx.pc = "loop"
    /\ bx.o < NObj
    /\ LET o    == bx.o
           h    == NanHandling(BoxcarSums(bx.args, o), "NANs")
           corr == UpdateBgcorr(bx.bgcorr, bx.args, o)
       IN  bx' = IF h.raised
                 THEN [bx EXCEPT !.pc = "KeyError", !.bgcorr = corr, !.warned = TRUE]
                 ELSE IF ~bx.args.check[o]
                 THEN [bx EXCEPT !.pc = "fatal", !.bgcorr = corr,
                                 !.warned = @ \/ h.warned]
                 ELSE [bx EXCEPT !.o = o + 1, !.bgcorr = corr,
                                 !.warned = @ \/ h.warned,
                                 !.specobjs[o] =
                                     [filled |-> @.filled + 1,
                                      wave   |-> h.sums.wave,
                                      counts |-> h.sums.counts,
                                      var    |-> h.sums.var,
                                      sky    |-> h.sums.sky,
                                      mask   |-> h.sums.mask]]
    /\ UNCHANGED <<umvars, ssvars, pf>>

\* Lines 107-108.
BoxcarReturn ==
    /\ bx.pc = "loop"
    /\ bx.o = NObj
    /\ bx' = [bx EXCEPT !.pc = "returned", !.returned = bx.bgcorr]
    /\ UNCHANGED <<umvars, ssvars, pf>>

BoxcarNext == BoxcarObject \/ BoxcarReturn

SpecBoxcar == BoxcarInit /\ [][BoxcarNext]_vars

\* ------------------------------------------------------------ obj_profiles
\* Rows of the frames obj_profiles is run on.
ProfRows == 52

\* Line 111: the default of COUNT_LIM.
COUNT_LIM == 15
\* Line 138: more good rows than this is good S/N.
GoodSN == 50
\* Line 143: more good rows than this, and no more than GoodSN, is the
\* second branch.
FewRows == 10

\* x > lim for a float x: False for NaN.
FGt(x, lim) ==
    CASE x.k = "nan" -> FALSE
      [] x.k = "inf" -> TRUE
      [] OTHER       -> x.n > lim * x.d

\* specobjs[o].boxcar['counts'] with n bright rows followed by rows at the
\* default limit.
CountsWith(n) ==
    [r \in 1..ProfRows |-> IF r <= n THEN F(COUNT_LIM + 5) ELSE F(COUNT_LIM)]

\* The numbers of bright rows the objects are given.
BrightRows == {0, 5, FewRows, FewRows + 1, GoodSN, GoodSN + 1}

\* Line 135: np.where(counts > COUNT_LIM)[0]
gdrow(counts, count_lim) == {r \in 1..ProfRows : FGt(counts[r], count_lim)}

\* Lines 138-144: the branch taken for a number of good rows. Both branches
\* stop in the debugger and go on; below them nothing is done.
ProfileBranch(ngood) ==
    IF ngood > GoodSN THEN "good_sn"
    ELSE IF ngood > FewRows THEN "fewer"
    ELSE "nothing"

ProfilesInit ==
    /\ pf \in [pc : {"loop"}, o : {0},
               counts : [Objs -> {CountsWith(n) : n \in BrightRows}],
               count_lim : {COUNT_LIM, COUNT_LIM + 10},
               branch : {[o \in Objs |-> "unset"]}]
    /\ bx = [pc |-> "off"]
    /\ NoReduction

\* Lines 130-144: one pass of the loop on objects.
ProfilesObject ==
    /\ pf.pc = "loop"
    /\ pf.o < NObj
    /\ pf' = [pf EXCEPT !.o = pf.o + 1,
                        !.branch[pf.o] =
                            ProfileBranch(Cardinality(gdrow(pf.counts[pf.o], pf.count_lim)))]
    /\ UNCHANGED <<umvars, ssvars, bx>>

\* The end of the loop: the function returns None.
ProfilesReturn ==
    /\ pf.pc = "loop"
    /\ pf.o = NObj
    /\ pf' = [pf EXCEPT !.pc = "returned"]
    /\ UNCHANGED <<umvars, ssvars, bx>>

ProfilesNext == ProfilesObject \/ ProfilesReturn

SpecProfiles == ProfilesInit /\ [][ProfilesNext]_vars

\* ================================================================== claims
\* The index array behind a master slot, read off the exposure directly.
Arr(exp, slot) ==
    CASE slot = "arc"       -> exp.idx_arcs
      [] slot = "bias"      -> exp.idx_bias
      [] slot = "readnoise" -> exp.idx_rn
      [] slot = "trace"     -> exp.idx_trace
      [] slot = "pixelflat" -> exp.idx_flat
      [] slot = "standard"  -> exp.idx_std

Slot(se, i, slot, det) == se[i].master[slot][det]

PropSlots == {"arc", "bias", "standard", "trace", "pixelflat"}

SwapFlat(slot) == IF slot = "trace" THEN "pixelflat" ELSE "trace"

Elems(a) == {a[k] : k \in 1..Len(a)}

\* b is a reordering of a.
IsPermutation(a, b) ==
    /\ Len(a) = Len(b)
    /\ \A x \in Elems(a) \cup Elems(b) :
          Cardinality({k \in 1..Len(a) : a[k] = x}) =
          Cardinality({k \in 1..Len(b) : b[k] = x})

\* The call recorded in c is a call of UpdateMasters (bare, or after a compute).
IsCall(c) == c.op \in {"MasterStep", "UpdateMasters"}

\* The driver has finished the step of slot type t of exposure A on detector d.
StepDone(A, t, d) ==
    \/ A < dpc.sc
    \/ /\ A = dpc.sc
       /\ \/ d < dpc.det
          \/ d = dpc.det /\
             (IF t \in {"trace", "pixelflat"} THEN <<"flat", t>> ELSE <<t, "none">>)
                 \in dpc.done

C2_PermutedArraysPropagate ==
    [][\A i \in SciIdx :
         LET c == last'
             t == SlotOf(c.ftype, c.chktype)
         IN  (/\ IsCall(c) /\ Propagated(c.ftype, c.chktype)
              /\ i > c.sc
              /\ IsPermutation(Arr(sciexp[c.sc], t), Arr(sciexp[i], t))
              /\ Slot(sciexp, i, t, c.det) = None)
                 => /\ Slot(sciexp', i, t, c.det) # None
                    /\ Slot(sciexp', i, t, c.det) = Slot(sciexp', c.sc, t, c.det)]_vars

C4_WriteOnce ==
    [][\A i \in SciIdx, t \in SlotTypes, d \in Dets :
         (IsCall(last') /\ Slot(sciexp, i, t, d) # None)
             => Slot(sciexp', i, t, d) = Slot(sciexp, i, t, d)]_vars

\* A call from exposure sc met a later exposure with the identical array whose
\* slot held its own master, and left it.
C4_Witness ==
    \E i \in SciIdx :
        LET t == SlotOf(last.ftype, last.chktype)
        IN  /\ IsCall(last) /\ Propagated(last.ftype, last.chktype)
            /\ i > last.sc
            /\ Arr(sciexp[i], t) = Arr(sciexp[last.sc], t)
            /\ Slot(sciexp, last.sc, t, last.det) = <<last.sc, t>>
            /\ Slot(sciexp, i, t, last.det) = <<i, t>>

\* C5: a slot holding a master computed for another exposure (or as the other
\* flat subtype) has the same index array as the slot it was computed for, and
\* two slots holding the same master have the same index array.
C5_SharedOnlyIfEqualArrays ==
    \A d \in Dets, i \in SciIdx, t \in SlotTypes :
        Slot(sciexp, i, t, d) # None =>
            LET m == Slot(sciexp, i, t, d)
            IN  /\ Arr(sciexp[i], t) = Arr(sciexp[m[1]], m[2])
                /\ \A j \in SciIdx, u \in SlotTypes :
                      Slot(sciexp, j, u, d) = m
                          => Arr(sciexp[i], t) = Arr(sciexp[j], u)

\* One exposure received another's master while a third, with an overlapping
\* but different array, was passed over.
C5_Witness ==
    \E i \in SciIdx, j \in SciIdx, k \in SciIdx, t \in PropSlots, d \in Dets :
        /\ i # j
        /\ Slot(sciexp, i, t, d) = <<j, t>>
        /\ k > j
        /\ Arr(sciexp[k], t) # Arr(sciexp[j], t)
        /\ Elems(Arr(sciexp[k], t)) \cap Elems(Arr(sciexp[j], t)) # {}
        /\ Slot(sciexp, k, t, d) = None
        /\ IsCall(last) /\ last.sc = j

C7_UnknownTypeIsLoggedNoOp ==
    [][(/\ last'.op = "UpdateMasters"
        /\ \/ last'.ftype \notin {"arc", "bias", "readnoise", "flat", "standard"}
           \/ last'.ftype = "flat" /\ last'.chktype \notin {"trace", "pixelflat"})
          => /\ sciexp' = sciexp
             /\ lastlog' = "bug"
             /\ run' = "running"]_vars

C7_Witness ==
    /\ last.op = "UpdateMasters"
    /\ last.ftype = "flat" /\ last.chktype = "blaze"
    /\ lastlog = "bug"
    /\ run = "running"
    /\ \E i \in SciIdx : Slot(sciexp, i, "trace", last.det) # None

\* ---- SetupScience

\* prev_setup_dict when the loop of lines 67-76 reaches science frame i.
RECURSIVE DictBefore(_)
DictBefore(i) ==
    IF i = 0 THEN PriorSetup
    ELSE instr_setup(i - 1, 1, DictBefore(i - 1)).dict

\* The setup id of science frame i against the prior setup file.
SetupOfFrame(i) == instr_setup(i, 1, DictBefore(i)).setup

\* The science frames from i on that the filter lets through, in index order.
RECURSIVE FramesInFilter(_)
FramesInFilter(i) ==
    IF i >= NumSci THEN <<>>
    ELSE IF ~settings.setup.given \/ SetupOfFrame(i) \in settings.setup.ids
    THEN <<i>> \o FramesInFilter(i + 1)
    ELSE FramesInFilter(i + 1)

\* The science frames from i on that the filter excludes, in index order.
RECURSIVE FramesOutOfFilter(_)
FramesOutOfFilter(i) ==
    IF i >= NumSci THEN <<>>
    ELSE IF settings.setup.given /\ SetupOfFrame(i) \notin settings.setup.ids
    THEN <<i>> \o FramesOutOfFilter(i + 1)
    ELSE FramesOutOfFilter(i + 1)

BuildOver == ss.pc \in {"group_begin", "group_fill", "write", "done"}

\* C8: when a setup restriction is asked for and there is no prior setup file,
\* SetupScience ends in the fatal error at once: no frame is sorted, no
\* directory made, no ScienceExposure created, no setup or group file written.
C8_FatalBeforeAnyWork ==
    (settings.setup.given /\ disk.nexist = 0) =>
        /\ ss.pc \in {"start", "fatal"}
        /\ ss.pc = "fatal" <=> run = "fatal"
        /\ ~ss.sorted /\ ~ss.dirs
        /\ sciexp = <<>> /\ ss.scii = <<>>
        /\ group_dict = <<>>
        /\ disk.setup_file = "none" /\ disk.group_file = "none"

C8_Witness ==
    /\ settings.setup.given /\ disk.nexist = 0
    /\ run = "fatal" /\ ss.pc = "fatal"

\* C9: once the exposure list is built, it holds one ScienceExposure for each
\* science frame whose setup id is in the filter (for every science frame when
\* there is no filter), in index order, and nothing else; each other frame
\* was skipped with one informational log, and the run is not in error.
C9_FilterKeepsExactly ==
    BuildOver =>
        LET kept == FramesInFilter(0)
        IN  /\ PyLen(sciexp) = Len(kept)
            /\ \A k \in 1..Len(kept) :
                   sciexp[k - 1] = ScienceExposure(kept[k], settings.spect)
            /\ ss.scii = kept
            /\ ss.skipped = FramesOutOfFilter(0)
            /\ ~settings.setup.given => PyLen(sciexp) = NumSci
            /\ run # "fatal"

C9_Witness ==
    /\ ss.pc = "done"
    /\ settings.setup.given
    /\ Len(ss.skipped) > 0
    /\ PyLen(sciexp) > 1

\* The filename lists of a group.
FileKeys == GroupFields \ {"sciobj", "stdobj"}

NoDuplicates(l) == \A k, m \in 1..Len(l) : l[k] = l[m] => k = m

\* The elements of s in the order of their first occurrence.
RECURSIVE FirstOccurrences(_)
FirstOccurrences(s) ==
    IF s = <<>> THEN <<>>
    ELSE LET r == FirstOccurrences(SubSeq(s, 1, Len(s) - 1))
         IN  IF InList(s[Len(s)], r) THEN r ELSE Append(r, s[Len(s)])

\* C10: in every state of the construction of the group records, each
\* filename list of each group has no duplicate, and holds the filenames met
\* for it so far in the order in which each was first met.
C10_GroupListsAreOrderedSets ==
    \A g \in DOMAIN group_dict : \A key \in FileKeys :
        /\ NoDuplicates(group_dict[g][key])
        /\ group_dict[g][key] = FirstOccurrences(seen[g][key])

C10_Witness ==
    /\ ss.pc = "group_fill"
    /\ \E g \in DOMAIN group_dict : \E key \in FileKeys :
          /\ Len(group_dict[g][key]) > 1
          /\ Len(seen[g][key]) > Len(group_dict[g][key])

\* The places of the group records where target name t stands in list f.
PlacesOf(t, f) ==
    UNION { {<<g, j>> : j \in {k \in 1..Len(group_dict[g][f]) : group_dict[g][f][k] = t}} :
            g \in DOMAIN group_dict }

\* The target names of a list of filenames.
TargetsOf(files) == [k \in 1..Len(files) |-> Target(files[k][2])]

\* Every exposure whose fill is over has its target name once in the sciobj
\* lists, and no exposure has it more than once.
SciobjOncePerFrame ==
    \A k \in DOMAIN sciexp :
        LET n == Cardinality(PlacesOf(Target(sciexp[k].idx_sci[1]), "sciobj"))
        IN  IF ss.pc \in {"group_begin", "group_fill", "write", "done"} /\ k < ss.sc
            THEN n = 1 ELSE n <= 1

\* C11 as stated: the target name of a science frame is added once for the
\* frame, and the target name of a standard is added at each occurrence of
\* the standard in the index lists gone through, also when its filename is
\* already in the group.
C11_TargetsPerOccurrence ==
    /\ SciobjOncePerFrame
    /\ \A g \in DOMAIN group_dict :
           group_dict[g]["stdobj"] = TargetsOf(seen[g]["standard"])

\* C11 amended: the target name of a science frame is added once for the
\* frame; the target name of a standard is added only when its filename is new
\* to the group, so that stdobj runs parallel to the standard filename list.
C11_StdobjParallelsStandard ==
    /\ SciobjOncePerFrame
    /\ \A g \in DOMAIN group_dict :
           group_dict[g]["stdobj"] = TargetsOf(group_dict[g]["standard"])

C11_Witness ==
    /\ ss.pc = "done"
    /\ \E g \in DOMAIN group_dict :
          /\ Len(group_dict[g]["sciobj"]) > 1
          /\ Len(seen[g]["standard"]) > Len(group_dict[g]["standard"])
          /\ Len(group_dict[g]["stdobj"]) > 1

\* setup_dict had only the first k retained science frames gone into it.
RECURSIVE RetainedDict(_)
RetainedDict(k) ==
    IF k = 0 THEN <<>>
    ELSE instr_setup(ss.scii[k], 1, RetainedDict(k - 1)).dict

\* The group key of the setup of the k-th retained science frame.
GroupKeyOfRetained(k) ==
    LET setup == instr_setup(ss.scii[k], 1, RetainedDict(k - 1)).setup
    IN  [i \in 1..NDet |-> setup + (i - 1)]

\* The frames matched to science frame f for a key, as filenames, and the
\* target names that go with f in a list of target names.
FilesMatched(key, f) ==
    {FileName(SpectIndex(key, f)[j]) : j \in 1..Len(SpectIndex(key, f))}
TargetsMatched(field, f) ==
    IF field = "sciobj" THEN {Target(SciFrame(f))}
    ELSE {Target(SpectIndex("standard", f)[j]) :
             j \in 1..Len(SpectIndex("standard", f))}

\* C12: when the group records are complete, there is one record for each
\* group key of a retained science frame, and each of its lists holds what
\* was matched to the retained science frames of that group key, and nothing
\* else, whether or not the filter skipped frames.
C12_GroupHoldsOwnFrames ==
    ss.pc \in {"write", "done"} =>
        /\ DOMAIN group_dict = {GroupKeyOfRetained(k) : k \in 1..Len(ss.scii)}
        /\ \A g \in DOMAIN group_dict :
               LET members == {ss.scii[k] : k \in
                                 {n \in 1..Len(ss.scii) : GroupKeyOfRetained(n) = g}}
               IN  /\ \A key \in FileKeys :
                          Elems(group_dict[g][key]) =
                              UNION {FilesMatched(key, f) : f \in members}
                   /\ \A field \in {"sciobj", "stdobj"} :
                          Elems(group_dict[g][field]) =
                              UNION {TargetsMatched(field, f) : f \in members}

\* C13 as stated: sort_data is asked to put unclassifiable frames in 'unknown'
\* only when the calibration check is not active.
C13_UnknownOnlyOutsideCalcheck ==
    ss.sorted => (ss.sort_flag <=> ~settings.calcheck)

\* C13 amended: sort_data is asked to put unclassifiable frames in 'unknown'
\* exactly when the calibration check is active.
C13_UnknownOnlyInCalcheck ==
    ss.sorted => (ss.sort_flag <=> settings.calcheck)

C13_Witness ==
    /\ ss.sorted /\ ss.sort_flag /\ settings.calcheck
    /\ run = "exit"

\* ---- boxcar

\* The rows of object o whose aperture is empty.
EmptyRows(o) == {r \in Rows : \A c \in Cols : weight(bx.args, o)[r][c] = 0}

\* Every object filled so far has, in each row of empty aperture, zero
\* counts, variance and sky, and the NaN bit in its mask.
EmptyRowsZeroed ==
    \A o \in Objs : bx.specobjs[o].filled > 0 =>
        \A r \in EmptyRows(o) :
            /\ bx.specobjs[o].counts[r] = F(0)
            /\ bx.specobjs[o].var[r] = F(0)
            /\ bx.specobjs[o].sky[r] = F(0)
            /\ HasFlag(bx.specobjs[o].mask[r], "NAN")

\* C14: boxcar does not raise in its NaN handling, and each row of empty
\* aperture comes out with zero counts, variance and sky and with the NaN
\* flag in its mask.
C14_EmptyRowsZeroedAndFlagged ==
    /\ bx.pc # "KeyError"
    /\ EmptyRowsZeroed

\* C15: in the mask of every filled object, a row has the CR bit exactly when
\* some pixel of its aperture is flagged in the cosmic-ray mask.
C15_CRBitIffApertureHit ==
    \A o \in Objs : bx.specobjs[o].filled > 0 =>
        \A r \in Rows :
            HasFlag(bx.specobjs[o].mask[r], "CR") <=>
                \E c \in Cols : /\ weight(bx.args, o)[r][c] > 0
                                /\ crmask(bx.args)[r][c] = 1

\* C16: the objects before the loop position passed their check and are
\* filled once each, in trace order; the others are not filled; and the call
\* stops short of its return only in the fatal 'bad match' error, at an
\* object whose check fails, so that an object whose check fails is never
\* passed over nor filled.
C16_BadMatchOrFilledOnce ==
    /\ \A o \in Objs :
          /\ o < bx.o => bx.args.check[o] /\ bx.specobjs[o].filled = 1
          /\ o >= bx.o => bx.specobjs[o] = EmptyBoxcar
    /\ bx.pc \notin {"loop", "returned"} =>
          bx.pc = "fatal" /\ ~bx.args.check[bx.o]
    /\ bx.pc = "returned" => bx.o = NObj

\* ---- obj_profiles

\* The rows of object o that are good: boxcar counts above the limit.
GoodRowsOf(o) ==
    Cardinality({r \in 1..ProfRows : FGt(pf.counts[o][r], pf.count_lim)})

\* C17: obj_profiles goes past an object only if it has at least 10 good
\* rows, on the sample-accumulation path when it has more than 50 and on the
\* reduced path when it has 10 to 50; with fewer than 10 it stops in a
\* 'profile unavailable' condition.
C17_FewRowsRaiseUnavailable ==
    /\ \A o \in Objs : o < pf.o =>
          /\ GoodRowsOf(o) >= 10
          /\ GoodRowsOf(o) > 50 => pf.branch[o] = "good_sn"
          /\ GoodRowsOf(o) <= 50 => pf.branch[o] = "fewer"
    /\ pf.pc = "returned" => \A o \in Objs : GoodRowsOf(o) >= 10

\* ---- UpdateMasters, frame conditions

\* C18: a call of UpdateMasters with ftype 'readnoise' changes no master slot
\* and no index array; it logs the bug when a later exposure exists and logs
\* nothing when the current exposure is the last one, and the run goes on.
C18_ReadnoiseNeverPropagates ==
    [][(last'.op = "UpdateMasters" /\ last'.ftype = "readnoise")
          => /\ sciexp' = sciexp
             /\ lastlog' = (IF last'.sc + 1 < NumSci THEN "bug" ELSE "none")
             /\ run' = "running"]_vars

\* The call was made from an exposure with a later exposure of the identical
\* readnoise array, and masters of other types in place.
C18_Witness ==
    /\ last.op = "UpdateMasters" /\ last.ftype = "readnoise"
    /\ lastlog = "bug"
    /\ \E i \in SciIdx : /\ i > last.sc
                         /\ sciexp[i].idx_rn = sciexp[last.sc].idx_rn
                         /\ Slot(sciexp, i, "readnoise", last.det) = None
    /\ \E i \in SciIdx, t \in PropSlots : Slot(sciexp, i, t, last.det) # None

\* The master slots of an ftype.
SlotsOfType(ftype) == IF ftype = "flat" THEN {"trace", "pixelflat"} ELSE {ftype}

\* The exposure list UpdateMasters is called on in the step to the next
\* state: the list of this state, with the master of the step computed when
\* the step is a compute followed by the call.
ListAtCall ==
    IF last'.op = "MasterStep"
    THEN ComputeMaster(sciexp, last'.sc, last'.det, SlotOf(last'.ftype, last'.chktype))
    ELSE sciexp

\* C19: a call UpdateMasters(sciexp, sc, det, ftype, chktype) changes no slot
\* of an exposure before sc, no slot of another detector, no slot of another
\* type, not the slot of exposure sc it propagates from, and no index array;
\* the one slot of exposure sc it may change is the other flat subtype, in a
\* flat call.
C19_FrameConditions ==
    [][IsCall(last') =>
          LET sc  == last'.sc
              own == SlotOf(last'.ftype, last'.chktype)
              pre == ListAtCall
          IN  \A i \in SciIdx :
                  IF i < sc THEN sciexp'[i] = pre[i]
                  ELSE /\ \A t \in SlotTypes :
                             IF t \notin SlotsOfType(last'.ftype) \/ (i = sc /\ t = own)
                             THEN sciexp'[i].master[t] = pre[i].master[t]
                             ELSE /\ \A d \in Dets \ {last'.det} :
                                        Slot(sciexp', i, t, d) = Slot(pre, i, t, d)
                                  /\ (i = sc /\ sciexp'[i].master[t] # pre[i].master[t])
                                        => last'.ftype = "flat" /\ t = SwapFlat(own)
                       /\ [sciexp'[i] EXCEPT !.master = pre[i].master] = pre[i]]_vars

\* A flat call filled the other subtype of its own exposure and left an
\* earlier exposure with the identical array and an empty slot as it was.
C19_Witness ==
    /\ IsCall(last)
    /\ last.ftype = "flat" /\ last.chktype = "trace"
    /\ lastlog = "info"
    /\ Slot(sciexp, last.sc, "pixelflat", last.det) = <<last.sc, "trace">>
    /\ \E i \in SciIdx :
          /\ i < last.sc
          /\ sciexp[i].idx_trace = sciexp[last.sc].idx_trace
          /\ Slot(sciexp, i, "trace", last.det) = None

\* C20: after a call of UpdateMasters, the same call made again leaves every
\* master slot, and the whole list, as the first call left it.
C20_Idempotent ==
    IsCall(last) =>
        UpdateMasters(sciexp, last.sc, last.det, last.ftype, last.chktype).se = sciexp

\* The first call copied the master to two slots at least; the second call
\* finds them filled and copies nothing.
C20_Witness ==
    /\ IsCall(last)
    /\ lastlog = "info"
    /\ Cardinality({i \in SciIdx : \E t \in PropSlots :
                       /\ i # last.sc
                       /\ Slot(sciexp, i, t, last.det) =
                              <<last.sc, SlotOf(last.ftype, last.chktype)>>}) > 1
    /\ UpdateMasters(sciexp, last.sc, last.det, last.ftype, last.chktype).log = "none"

====
